---- MODULE Spec2Model ----
(***************************************************************************)
(* The collection-to-labelled-dataset pipeline of collection_analysis.py   *)
(* (run_analysis_for_theme and the __main__ loop) and the file-name rule   *)
(* of dashboard_app.py, as a state machine.                                *)
(*                                                                         *)
(* Strings are sequences of one-character strings, so that str.replace    *)
(* is computed character by character.  Sentiment scores are integers in   *)
(* ten-thousandths (0.05 is 500).  The forum service, the credentials      *)
(* file and the disk are the environment: what they answer is drawn with   *)
(* \E at the step that asks them.                                          *)
(***************************************************************************)
EXTENDS Integers, Sequences, FiniteSets, TLC

VARIABLES
    pc,             \* position of the single thread of the script
    idx,            \* index in temas_para_analisar of the current topic
    fs,             \* the Data directory: file name -> file
    whole,          \* per file: every row to_csv was given for it is on disk
    artifact,       \* per file: what was on disk when to_csv returned for it
    phase,          \* per topic: the stages its call went through in this run
    io,             \* the external effects of the current call
    auth,           \* what section 2.2 met for the current topic
    expected,       \* comments listed for the current topic that have an
                    \* author and a body
    yielded,        \* submissions the search listing has yielded so far
    posts_data,     \* local list of run_analysis_for_theme
    comments_data,  \* local list of run_analysis_for_theme
    df_final,       \* local frame of run_analysis_for_theme
    topicA, topicB, \* inputs of the file-name rule
    names,          \* the file names derived from topicA and topicB
    score,          \* input of classify_sentiment
    label           \* result of classify_sentiment

vars == <<pc, idx, fs, whole, artifact, phase, io, auth, expected, yielded,
          posts_data, comments_data, df_final, topicA, topicB, names, score,
          label>>

pureVars == <<topicA, topicB, names, score, label>>

mainVars == <<idx, fs, whole, artifact, phase, io, auth, expected, yielded,
              posts_data, comments_data, df_final>>

----------------------------------------------------------------------------
\* Bounds of the model.

\* submissions one search listing returns at most (the code asks for 100)
MaxPosts == 1

\* comments one submission lists at most
MaxComments == 2

\* length of the topic strings the file-name rule is tried on
MaxTopicLen == 2

----------------------------------------------------------------------------
\* Strings.

Last(s) == s[Len(s)]

\* str.replace(old, new) for a one-character old and a new of length 0 or 1
RECURSIVE Replace(_, _, _)
Replace(s, old, new) ==
    IF s = <<>> THEN <<>>
    ELSE (IF Head(s) = old THEN new ELSE <<Head(s)>>)
         \o Replace(Tail(s), old, new)

FilePrefix == <<"r", "e", "d", "d", "i", "t", "_">>

FileSuffix ==
    <<"_", "a", "n", "a", "l", "i", "s", "a", "d", "o", ".", "c", "s", "v">>

\* collection_analysis.py, line 75
safe_term(search_term) ==
    Replace(Replace(Replace(search_term, " ", <<"_">>), "(", <<>>), ")", <<>>)

\* collection_analysis.py, line 76
data_file_name(search_term) ==
    FilePrefix \o safe_term(search_term) \o FileSuffix

\* line 32 without its last replace: the closing parenthesis stays
safe_theme_KeepsParen(selected_theme) ==
    Replace(Replace(selected_theme, " ", <<"_">>), "(", <<>>)

\* dashboard_app.py, line 32
safe_theme(selected_theme) ==
    Replace(Replace(Replace(selected_theme, " ", <<"_">>), "(", <<>>),
            ")", <<>>)

\* dashboard_app.py, line 33
dashboard_file_name(selected_theme) ==
    FilePrefix \o safe_theme(selected_theme) \o FileSuffix

\* collection_analysis.py, lines 179-183 (and dashboard_app.py, lines 9-13)
temas_para_analisar ==
    << <<"X", "b", "o", "x", " ", "G", "a", "m", "e", " ", "P", "a", "s", "s">>,
       <<"P", "l", "a", "y", "S", "t", "a", "t", "i", "o", "n", " ",
         "P", "l", "u", "s", " ", "(", "P", "S", "N", ")">>,
       <<"N", "i", "n", "t", "e", "n", "d", "o", " ",
         "S", "w", "i", "t", "c", "h", " ", "O", "n", "l", "i", "n", "e">> >>

NTopics == Len(temas_para_analisar)

TopicIds == 1..NTopics

\* full_file_path of each topic, relative to DATA_DIR (lines 75-77)
Paths == [i \in TopicIds |-> data_file_name(temas_para_analisar[i])]

PathOf(i) == Paths[i]

Files == {Paths[i] : i \in TopicIds}

----------------------------------------------------------------------------
\* Text, scores and classes.

\* a comment body that is the empty string
EmptyBody == <<>>

\* a text that is None (pandas: null)
NullText == <<"None">>

\* A comment body as the list of its whitespace-separated pieces.
SampleBodies ==
    { <<"@bob", "Great", "game", "!!", "the", "a", "http://a.co/x">> }

Lower(tok) == IF tok = "Great" THEN "great" ELSE tok

IsUrl(tok) == tok \in {"http://a.co/x", "www.a.co"}

IsMention(tok) == tok \in {"@bob"}

IsPunctuation(tok) == tok \in {"!!"}

\* the words of the two stop-word lists that occur in the sample bodies
stop_words == {"the", "a"}

TokenLen(tok) == IF tok \in {"a"} THEN 1 ELSE 2

\* collection_analysis.py, lines 41-55, on whole pieces: lower-case, drop
\* URLs, mentions and punctuation, drop stop words and one-letter tokens.
preprocess_text(text) ==
    LET lowered  == [i \in 1..Len(text) |-> Lower(text[i])]
        Kept(t)  == /\ ~IsUrl(t)
                    /\ ~IsMention(t)
                    /\ ~IsPunctuation(t)
                    /\ t \notin stop_words
                    /\ TokenLen(t) > 1
    IN  SelectSeq(lowered, Kept)

\* analyzer.polarity_scores(x)['compound'] for the sample bodies, in
\* ten-thousandths: the lexicon knows "great" and does not know "game".
polarity_compound(cleaned) ==
    IF \E i \in 1..Len(cleaned) : cleaned[i] = "great" THEN 6249 ELSE 0

\* 0.05, in ten-thousandths
PositiveThreshold == 500

\* -0.05, in ten-thousandths
NegativeThreshold == -500

\* the polarity scores of [-1, 1], in ten-thousandths
Scores == (-10000)..10000

\* lines 59-64 with strict comparisons
classify_sentiment_Strict(s) ==
    IF s > PositiveThreshold THEN "Positivo"
    ELSE IF s < NegativeThreshold THEN "Negativo"
    ELSE "Neutro"

\* collection_analysis.py, lines 57-64
classify_sentiment(s) ==
    IF s >= PositiveThreshold THEN "Positivo"
    ELSE IF s <= NegativeThreshold THEN "Negativo"
    ELSE "Neutro"

----------------------------------------------------------------------------
\* The forum service.

\* a comment as the service lists it; score and creation time do not vary
Comment(a, b) ==
    [author |-> a, body |-> b, score |-> 1,
     created_utc |-> [day |-> 19725, secs |-> 56527]]

Comments == {Comment(a, b) : a \in BOOLEAN, b \in {EmptyBody} \cup SampleBodies}

RECURSIVE SeqsUpTo(_, _)
SeqsUpTo(S, n) ==
    IF n = 0 THEN {<<>>}
    ELSE LET shorter == SeqsUpTo(S, n - 1)
             longest == {t \in shorter : Len(t) = n - 1}
         IN  shorter \cup {Append(s, x) : s \in longest, x \in S}

CommentListings == SeqsUpTo(Comments, MaxComments)

\* Python truthiness of a body: None and the empty string are false
Truthy(body) == body # NullText /\ body # EmptyBody

\* line 131 without its test of the body
Retained_AuthorOnly(comment) == comment.author

\* collection_analysis.py, line 131
Retained(comment) == comment.author /\ Truthy(comment.body)

\* collection_analysis.py, lines 130-138: the entries one submission adds
CommentEntries(post_id, listing) ==
    LET entry(i) == [post_id      |-> post_id,
                     comment_id   |-> i,
                     comment_text |-> listing[i].body,
                     comment_score |-> listing[i].score,
                     created_utc  |-> listing[i].created_utc]
        all == [i \in 1..Len(listing) |-> entry(i)]
        Keep(e) == Retained(listing[e.comment_id])
    IN  SelectSeq(all, Keep)

\* collection_analysis.py, line 162: pandas dt.normalize()
NormalizeDate(d) == [day |-> d.day, secs |-> 0]

\* collection_analysis.py, lines 144-162: rename, dropna, clean, score,
\* classify, select the seven columns, truncate the date
Analyze(entries) ==
    LET df_comments == [i \in 1..Len(entries) |->
                           [post_id       |-> entries[i].post_id,
                            comment_id    |-> entries[i].comment_id,
                            text          |-> entries[i].comment_text,
                            comment_score |-> entries[i].comment_score,
                            date          |-> entries[i].created_utc]]
        HasText(r) == r.text # NullText
        df == SelectSeq(df_comments, HasText)
        row(r) ==
            LET cleaned == preprocess_text(r.text)
                s       == polarity_compound(cleaned)
            IN  [post_id         |-> r.post_id,
                 date            |-> NormalizeDate(r.date),
                 text            |-> r.text,
                 cleaned_text    |-> cleaned,
                 sentiment_score |-> s,
                 sentiment       |-> classify_sentiment(s),
                 comment_score   |-> r.comment_score]
    IN  [i \in 1..Len(df) |-> row(df[i])]

Columns ==
    <<"post_id", "date", "text", "cleaned_text", "sentiment_score",
      "sentiment", "comment_score">>

----------------------------------------------------------------------------
\* The Data directory.

\* A file: whether it exists, the header line and the rows on disk so far.
NoFile == [exists |-> FALSE, header |-> <<>>, rows |-> <<>>]

EmptyFile == [exists |-> TRUE, header |-> <<>>, rows |-> <<>>]

\* line 81 looking in another directory than the one line 165 writes to
PathExists_WrongDir(dir, path) == FALSE

\* line 81 taking an empty file for no file
PathExists_NonEmpty(dir, path) == dir[path].exists /\ dir[path].rows # <<>>

\* os.path.exists(full_file_path), collection_analysis.py line 81
PathExists(dir, path) == dir[path].exists

\* The stage of a topic is the last of the stages its call went through:
\* NotStarted, Cached, AuthFailed, Collecting, SkippedEmpty, Scoring,
\* Persisted.
StageOf(t) == Last(phase[t])

Enter(t, stage) == [phase EXCEPT ![t] = Append(@, stage)]

Did(effects) == io \cup effects

NoNames ==
    [collectA |-> <<>>, collectB |-> <<>>, dashA |-> <<>>, dashB |-> <<>>]

\* the locals of run_analysis_for_theme go with its frame
DropLocals ==
    /\ yielded' = 0
    /\ posts_data' = <<>>
    /\ comments_data' = <<>>
    /\ df_final' = <<>>

\* with them goes what the model remembers of the call
DropAll ==
    /\ DropLocals
    /\ io' = {}
    /\ auth' = "none"
    /\ expected' = <<>>

PureIdle ==
    /\ topicA = <<>>
    /\ topicB = <<>>
    /\ names = NoNames
    /\ score = 0
    /\ label = "none"

MainIdle ==
    /\ idx = 0
    /\ fs = [f \in Files |-> NoFile]
    /\ whole = [f \in Files |-> FALSE]
    /\ artifact = [f \in Files |-> NoFile]
    /\ phase = [t \in TopicIds |-> <<"NotStarted">>]
    /\ io = {}
    /\ auth = "none"
    /\ expected = <<>>
    /\ yielded = 0
    /\ posts_data = <<>>
    /\ comments_data = <<>>
    /\ df_final = <<>>

\* The first execution of the script, over the Data directory that line 19
\* has just created.
Init ==
    /\ pc = "loop"
    /\ MainIdle
    /\ PureIdle

----------------------------------------------------------------------------
\* The __main__ loop, lines 186-187.

\* the for statement takes the next topic and calls run_analysis_for_theme
LoopNext ==
    /\ pc = "loop"
    /\ idx < NTopics
    /\ idx' = idx + 1
    /\ pc' = "call"
    /\ DropAll
    /\ UNCHANGED pureVars
    /\ UNCHANGED <<fs, whole, artifact, phase>>

\* the for statement is exhausted: lines 189-191, the script ends
LoopEnd ==
    /\ pc = "loop"
    /\ idx = NTopics
    /\ pc' = "done"
    /\ DropAll
    /\ UNCHANGED pureVars
    /\ UNCHANGED <<idx, fs, whole, artifact, phase>>

\* The script is started again over the Data directory the last execution
\* left, whether that one ended or died of an uncaught exception.
Rerun ==
    /\ pc \in {"done", "crashed"}
    /\ pc' = "loop"
    /\ idx' = 0
    /\ phase' = [t \in TopicIds |-> <<"NotStarted">>]
    /\ DropAll
    /\ UNCHANGED pureVars
    /\ UNCHANGED <<fs, whole, artifact>>

\* An exception no handler catches leaves run_analysis_for_theme and the for
\* statement of line 186, which has no handler either: the process ends.
Raise ==
    /\ pc' = "crashed"
    /\ DropAll

\* run_analysis_for_theme returns to the for statement
Return ==
    /\ pc' = "loop"
    /\ DropLocals

----------------------------------------------------------------------------
\* run_analysis_for_theme, lines 70-168.

\* lines 75-83: the artifact exists, return
ReturnCached ==
    /\ pc = "call"
    /\ PathExists(fs, PathOf(idx))
    /\ phase' = Enter(idx, "Cached")
    /\ Return
    /\ UNCHANGED pureVars
    /\ UNCHANGED <<idx, fs, whole, artifact, io, auth, expected>>

\* lines 75-83: no artifact, go on to section 2.2
NotCached ==
    /\ pc = "call"
    /\ ~PathExists(fs, PathOf(idx))
    /\ pc' = "auth"
    /\ UNCHANGED pureVars
    /\ UNCHANGED mainVars

\* the credentials file (absent, or its number of lines) and the session
AuthOutcome(present, nlines, sessionRaises) ==
    IF ~present THEN "no_file"
    ELSE IF nlines < 4 THEN "short_file"
    ELSE IF sessionRaises THEN "session_error"
    ELSE "ok"

AuthEffects(outcome) ==
    IF outcome \in {"no_file", "short_file"} THEN {"credentials"}
    ELSE {"credentials", "session"}

\* lines 102-104 without the return: the call goes on to section 2.3
AuthHandler_FallsThrough ==
    /\ phase' = [phase EXCEPT ![idx] = @ \o <<"AuthFailed", "Collecting">>]
    /\ pc' = "search"
    /\ DropLocals

\* lines 102-104 raising again instead of returning
AuthHandler_Reraises ==
    /\ phase' = Enter(idx, "AuthFailed")
    /\ pc' = "crashed"
    /\ DropLocals

\* lines 102-104: the handler of the try block
AuthHandler ==
    /\ phase' = Enter(idx, "AuthFailed")
    /\ Return

\* lines 106-108: collection begins
AuthPassed ==
    /\ phase' = Enter(idx, "Collecting")
    /\ pc' = "search"
    /\ yielded' = 0
    /\ posts_data' = <<>>
    /\ comments_data' = <<>>
    /\ df_final' = <<>>

\* lines 87-104
Authenticate ==
    /\ pc = "auth"
    /\ \E present \in BOOLEAN, nlines \in 0..5, sessionRaises \in BOOLEAN :
          LET outcome == AuthOutcome(present, nlines, sessionRaises)
          IN  /\ auth' = outcome
              /\ io' = Did(AuthEffects(outcome))
              /\ IF outcome = "ok" THEN AuthPassed ELSE AuthHandler
    /\ UNCHANGED pureVars
    /\ UNCHANGED <<idx, fs, whole, artifact, expected>>

\* line 114, the listing yields a stickied submission: line 115 passes it over
SearchYieldsStickied ==
    /\ pc = "search"
    /\ yielded < MaxPosts
    /\ yielded' = yielded + 1
    /\ io' = Did({"search"})
    /\ UNCHANGED pureVars
    /\ UNCHANGED <<pc, idx, fs, whole, artifact, phase, auth, expected,
                   posts_data, comments_data, df_final>>

\* lines 114-123, the listing yields a submission that is not stickied; its
\* id is its place in the listing
SearchYieldsPost ==
    /\ pc = "search"
    /\ yielded < MaxPosts
    /\ yielded' = yielded + 1
    /\ posts_data' = Append(posts_data, [post_id |-> yielded + 1])
    /\ io' = Did({"search"})
    /\ pc' = "comments"
    /\ UNCHANGED pureVars
    /\ UNCHANGED <<idx, fs, whole, artifact, phase, auth, expected,
                   comments_data, df_final>>

\* line 114, the search request fails
SearchRaises ==
    /\ pc = "search"
    /\ Raise
    /\ UNCHANGED pureVars
    /\ UNCHANGED <<idx, fs, whole, artifact, phase>>

\* what the service listed under a submission: the places of the comments
\* that have an author and a body that is not empty
WithAuthorAndBody(post_id, listing) ==
    LET Place(i) == [post_id |-> post_id, comment_id |-> i]
        Has(i)   == listing[i].author = TRUE /\ Len(listing[i].body) > 0
        RECURSIVE From(_)
        From(i)  == IF i > Len(listing) THEN <<>>
                    ELSE (IF Has(i) THEN <<Place(i)>> ELSE <<>>) \o From(i + 1)
    IN  From(1)

\* lines 129-138: the comments of the submission just yielded
ListComments ==
    /\ pc = "comments"
    /\ \E listing \in CommentListings :
          /\ expected' = expected \o WithAuthorAndBody(yielded, listing)
          /\ comments_data' = comments_data \o CommentEntries(yielded, listing)
    /\ io' = Did({"comments"})
    /\ pc' = "search"
    /\ UNCHANGED pureVars
    /\ UNCHANGED <<idx, fs, whole, artifact, phase, auth, yielded, posts_data,
                   df_final>>

\* line 129, the comment request fails
CommentsRaise ==
    /\ pc = "comments"
    /\ Raise
    /\ UNCHANGED pureVars
    /\ UNCHANGED <<idx, fs, whole, artifact, phase>>

\* lines 140-142 without the return: the warning is printed, the call goes on
ReturnEmpty_FallsThrough ==
    /\ phase' = Enter(idx, "Scoring")
    /\ df_final' = Analyze(comments_data)
    /\ pc' = "save"
    /\ UNCHANGED <<yielded, posts_data, comments_data>>

\* lines 140-142: nothing was collected, return
ReturnEmpty ==
    /\ phase' = Enter(idx, "SkippedEmpty")
    /\ Return

\* lines 144-162: the frame is built, cleaned, scored and classified
Score ==
    /\ phase' = Enter(idx, "Scoring")
    /\ df_final' = Analyze(comments_data)
    /\ pc' = "save"
    /\ UNCHANGED <<yielded, posts_data, comments_data>>

\* line 114 ends the listing; lines 140-162
SearchEnds ==
    /\ pc = "search"
    /\ io' = Did({"search"})
    /\ IF comments_data = <<>> THEN ReturnEmpty ELSE Score
    /\ UNCHANGED pureVars
    /\ UNCHANGED <<idx, fs, whole, artifact, auth, expected>>

\* line 165, to_csv opens the path for writing: the file is there, empty
OpenArtifact(dir, path) == [dir EXCEPT ![path] = EmptyFile]

ToCsvOpens ==
    /\ pc = "save"
    /\ fs' = OpenArtifact(fs, PathOf(idx))
    /\ whole' = [whole EXCEPT ![PathOf(idx)] = FALSE]
    /\ io' = Did({"to_csv"})
    /\ pc' = "write"
    /\ UNCHANGED pureVars
    /\ UNCHANGED <<idx, artifact, phase, auth, expected, yielded, posts_data,
                   comments_data, df_final>>

\* line 165, to_csv puts the header line on disk
ToCsvWritesHeader ==
    /\ pc = "write"
    /\ fs[PathOf(idx)].header = <<>>
    /\ fs' = [fs EXCEPT ![PathOf(idx)].header = Columns]
    /\ UNCHANGED pureVars
    /\ UNCHANGED <<pc, idx, whole, artifact, phase, io, auth, expected, yielded,
                   posts_data, comments_data, df_final>>

\* line 165, to_csv puts the rows on disk: a frame of fewer than 14285 rows
\* is one chunk of pandas
ToCsvWritesRows ==
    /\ pc = "write"
    /\ fs[PathOf(idx)].header # <<>>
    /\ ~whole[PathOf(idx)]
    /\ fs' = [fs EXCEPT ![PathOf(idx)].rows = df_final]
    /\ whole' = [whole EXCEPT ![PathOf(idx)] = TRUE]
    /\ UNCHANGED pureVars
    /\ UNCHANGED <<pc, idx, artifact, phase, io, auth, expected, yielded,
                   posts_data, comments_data, df_final>>

\* line 165, to_csv fails with something still to write (no permission to
\* open, disk full): nothing catches the exception, nothing removes the file
ToCsvRaises ==
    /\ \/ pc = "save"
       \/ pc = "write" /\ ~whole[PathOf(idx)]
    /\ Raise
    /\ UNCHANGED pureVars
    /\ UNCHANGED <<idx, fs, whole, artifact, phase>>

\* lines 165-168: to_csv has written everything and returns
ToCsvReturns ==
    /\ pc = "write"
    /\ whole[PathOf(idx)]
    /\ artifact' = [artifact EXCEPT ![PathOf(idx)] = fs[PathOf(idx)]]
    /\ phase' = Enter(idx, "Persisted")
    /\ Return
    /\ UNCHANGED pureVars
    /\ UNCHANGED <<idx, fs, whole, io, auth, expected>>

----------------------------------------------------------------------------

Next ==
    \/ LoopNext
    \/ LoopEnd
    \/ Rerun
    \/ ReturnCached
    \/ NotCached
    \/ Authenticate
    \/ SearchYieldsStickied
    \/ SearchYieldsPost
    \/ SearchRaises
    \/ ListComments
    \/ CommentsRaise
    \/ SearchEnds
    \/ ToCsvOpens
    \/ ToCsvWritesHeader
    \/ ToCsvWritesRows
    \/ ToCsvRaises
    \/ ToCsvReturns

Spec == Init /\ [][Next]_vars

----------------------------------------------------------------------------
\* The file-name rule on its own: two topic strings, and the names lines
\* 75-76 of collection_analysis.py and lines 32-33 of dashboard_app.py derive.

Alphabet == {" ", "_", "(", ")", "a"}

ConfiguredTopics == {temas_para_analisar[i] : i \in TopicIds}

TopicStrings == SeqsUpTo(Alphabet, MaxTopicLen) \cup ConfiguredTopics

InitNames ==
    /\ pc = "names"
    /\ MainIdle
    /\ topicA \in TopicStrings
    /\ topicB \in TopicStrings
    /\ names = NoNames
    /\ score = 0
    /\ label = "none"

DeriveNames ==
    /\ pc = "names"
    /\ names' = [collectA |-> data_file_name(topicA),
                 collectB |-> data_file_name(topicB),
                 dashA    |-> dashboard_file_name(topicA),
                 dashB    |-> dashboard_file_name(topicB)]
    /\ pc' = "named"
    /\ UNCHANGED <<topicA, topicB, score, label>>
    /\ UNCHANGED mainVars

NextNames == DeriveNames

SpecNames == InitNames /\ [][NextNames]_vars

\* classify_sentiment on its own: one score of [-1, 1]

InitClassify ==
    /\ pc = "classify"
    /\ MainIdle
    /\ topicA = <<>>
    /\ topicB = <<>>
    /\ names = NoNames
    /\ score \in Scores
    /\ label = "none"

Classify ==
    /\ pc = "classify"
    /\ label' = classify_sentiment(score)
    /\ pc' = "classified"
    /\ UNCHANGED <<topicA, topicB, names, score>>
    /\ UNCHANGED mainVars

NextClassify == Classify

SpecClassify == InitClassify /\ [][NextClassify]_vars

----------------------------------------------------------------------------
\* What is claimed of the pipeline.

Terminal == {"Cached", "Persisted", "SkippedEmpty", "AuthFailed"}

\* the call for the current topic has returned to the for statement
Returned == pc = "loop" /\ idx >= 1

\* the script is over: it ended, or an uncaught exception ended it
Over == pc \in {"done", "crashed"}

\* C1: once a call has persisted the artifact of a topic, a later call for
\* that topic collects nothing and scores nothing (it has no external effect
\* and the topic goes from NotStarted to Cached only), and the file stays
\* exactly what it was when to_csv returned.
C1_SecondCallIsNoOp ==
    \A t \in TopicIds :
        artifact[PathOf(t)].exists =>
            /\ fs[PathOf(t)] = artifact[PathOf(t)]
            /\ phase[t] \in {<<"NotStarted">>, <<"NotStarted", "Cached">>}
               \/ StageOf(t) = "Persisted"
            /\ (idx = t /\ StageOf(t) # "Persisted") => io = {}

\* a second call for a topic whose artifact an earlier call persisted has
\* returned
C1_Witness ==
    /\ Returned
    /\ artifact[PathOf(idx)].exists
    /\ StageOf(idx) = "Cached"
    /\ Len(fs[PathOf(idx)].rows) >= 1

\* C2: when the script is over, whatever failed on the way, every topic of
\* the list has been handed to run_analysis_for_theme.
C2_FailureNeverAbortsBatch ==
    Over => \A t \in TopicIds : StageOf(t) # "NotStarted"

\* C3: a file at an artifact path always holds the complete row set.
C3_NoPartialArtifact ==
    \A f \in Files : fs[f].exists => whole[f]

\* C4: when the listing of a topic is over and no listed comment of a
\* submission that is not stickied had both an author and a body, the call
\* has returned without an exception, the topic is SkippedEmpty, to_csv was
\* not called and there is no file at the topic's path.
C4_EmptyResultSkips ==
    ( /\ pc \in {"loop", "save", "write"}
      /\ idx >= 1
      /\ StageOf(idx) \in {"SkippedEmpty", "Scoring", "Persisted"}
      /\ expected = <<>> )
    => /\ pc = "loop"
       /\ StageOf(idx) = "SkippedEmpty"
       /\ "to_csv" \notin io
       /\ ~fs[PathOf(idx)].exists

\* a topic was skipped although comments were listed for it
C4_Witness ==
    /\ Returned
    /\ StageOf(idx) = "SkippedEmpty"
    /\ "comments" \in io
    /\ ~fs[PathOf(idx)].exists

\* C5: a call that finds a file at the topic's path returns in that very
\* step, whatever the file holds: the topic is Cached, nothing was read or
\* requested before the test and nothing is after it, and the directory is
\* as it was.
C5_Step ==
    (pc = "call" /\ fs[PathOf(idx)].exists)
    => /\ pc' = "loop"
       /\ idx' = idx
       /\ Last(phase'[idx]) = "Cached"
       /\ io = {}
       /\ io' = {}
       /\ fs' = fs

C5_ExistingFileReturnsAtOnce == [][C5_Step]_vars

\* a call has returned Cached on a file that holds no row
C5_Witness ==
    /\ Returned
    /\ StageOf(idx) = "Cached"
    /\ fs[PathOf(idx)].exists
    /\ ~whole[PathOf(idx)]
    /\ io = {}

\* the paths section 4.4 of the specification allows, and their beginnings
AllowedPaths ==
    { <<"NotStarted">>,
      <<"NotStarted", "Cached">>,
      <<"NotStarted", "AuthFailed">>,
      <<"NotStarted", "Collecting">>,
      <<"NotStarted", "Collecting", "SkippedEmpty">>,
      <<"NotStarted", "Collecting", "Scoring">>,
      <<"NotStarted", "Collecting", "Scoring", "Persisted">> }

C7_AuthFailureSkipsTopic ==
    (idx >= 1 /\ auth \in {"no_file", "short_file", "session_error"})
    => /\ pc = "loop"
       /\ phase[idx] = <<"NotStarted", "AuthFailed">>
       /\ io \subseteq {"credentials", "session"}
       /\ ~fs[PathOf(idx)].exists

\* a topic failed on a short credentials file and the next one was called
C7_Witness ==
    /\ idx >= 2
    /\ StageOf(idx - 1) = "AuthFailed"
    /\ auth = "short_file"
    /\ StageOf(idx) = "AuthFailed"

\* a topic string without underscore and without parenthesis
Plain(topic) == \A i \in 1..Len(topic) : topic[i] \notin {"_", "(", ")"}

\* C8, as claimed: two different topic strings never get the same file name,
\* and the dashboard derives the name the collection writes.
C8_DistinctTopicsDistinctFiles ==
    pc = "named" =>
        /\ topicA # topicB => names.collectA # names.collectB
        /\ names.dashA = names.collectA
        /\ names.dashB = names.collectB

\* C8, amended: the dashboard derives, for every topic, the name the
\* collection writes; two different topics get different names when both are
\* of the configured list or both are without underscore and parenthesis.
C8_SameRuleAndDistinctWhereInjective ==
    pc = "named" =>
        /\ names.dashA = names.collectA
        /\ names.dashB = names.collectB
        /\ ( /\ topicA # topicB
             /\ \/ {topicA, topicB} \subseteq ConfiguredTopics
                \/ Plain(topicA) /\ Plain(topicB) )
           => names.collectA # names.collectB

\* the names of the second and the third configured topic were derived
C8_Witness ==
    /\ pc = "named"
    /\ topicA = temas_para_analisar[2]
    /\ topicB = temas_para_analisar[3]
    /\ names.dashA = names.collectA
    /\ names.collectA # names.collectB

\* C9: classify_sentiment answers Positivo exactly from 0.05 up, Negativo
\* exactly from -0.05 down, Neutro exactly strictly in between, and nothing
\* else.
C9_ThreeWayThreshold ==
    pc = "classified" =>
        /\ label \in {"Positivo", "Negativo", "Neutro"}
        /\ label = "Positivo" <=> score >= 500
        /\ label = "Negativo" <=> score <= -500
        /\ label = "Neutro" <=> (score > -500 /\ score < 500)

\* the score 0.05 itself was classified
C9_Witness ==
    /\ pc = "classified"
    /\ score = 500
    /\ label = "Positivo"

\* C10: when the call has persisted the artifact, its rows are, one for one
\* and in order, the comments listed under submissions that are not stickied
\* that have an author and a body, and no row has a null or empty text.
C10_RowsAreRetainedComments ==
    (Returned /\ StageOf(idx) = "Persisted") =>
        LET rows == fs[PathOf(idx)].rows
        IN  /\ fs[PathOf(idx)].header = Columns
            /\ Len(rows) = Len(expected)
            /\ \A i \in 1..Len(rows) :
                  /\ rows[i].post_id = expected[i].post_id
                  /\ rows[i].text # NullText
                  /\ rows[i].text # EmptyBody

\* an artifact was persisted with one row, for the second comment of a
\* listing whose first comment was not retained
C10_Witness ==
    /\ Returned
    /\ StageOf(idx) = "Persisted"
    /\ Len(fs[PathOf(idx)].rows) = 1
    /\ expected[1].comment_id = 2

====
